---- MODULE Spec2Model ----
(***************************************************************************)
(* Model of the kakaotalk-bot bridge: the skill-platform routes of         *)
(* src/index.js (POST /channel/message, POST /group/message and, in the     *)
(* second variant of the file, POST /api/message) and the startup of the    *)
(* three entry points (src/index.js, its second variant, src/discord.js).   *)
(*                                                                         *)
(* Strings are sequences of characters (utterances) or of tokens (fixed     *)
(* texts, engine texts), so that trim() and string concatenation are        *)
(* computed, not assumed.                                                   *)
(*                                                                         *)
(* Express semantics used for the response object: res.status(c) assigns    *)
(* res.statusCode; res.json()/res.send() of an object transmit the          *)
(* response once and throw ERR_HTTP_HEADERS_SENT when the headers were       *)
(* already sent.                                                            *)
(***************************************************************************)
EXTENDS Naturals, Sequences, FiniteSets, TLC

\* ------------------------------------------------------------------ bounds
\* Longest utterance, in characters.
MaxLen == 2

\* The requests of one run; two are enough to interleave two handlers.
Reqs == {"r1", "r2"}

\* ------------------------------------------------------------- JS values
Undefined == "undefined"

Chars == {" ", "a"}

RECURSIVE StringsUpTo(_)
StringsUpTo(n) ==
  IF n = 0 THEN {<<>>}
  ELSE LET shorter == StringsUpTo(n - 1)
       IN  shorter \cup {Append(s, c) : s \in {t \in shorter : Len(t) = n - 1}, c \in Chars}

Utterances == StringsUpTo(MaxLen)

CallbackUrls == {"http://cb1", "http://cb2"}

\* String.prototype.trim
RECURSIVE TrimStart(_)
TrimStart(s) == IF s # <<>> /\ Head(s) = " " THEN TrimStart(Tail(s)) ELSE s

RECURSIVE TrimEnd(_)
TrimEnd(s) ==
  IF s # <<>> /\ s[Len(s)] = " " THEN TrimEnd(SubSeq(s, 1, Len(s) - 1)) ELSE s

\* The utterance used as it came, without trim().
NoTrim(s) == s

Trim(s) == TrimEnd(TrimStart(s))

\* ------------------------------------------------------------- constants
\* src/index.js:12
cannotProcessRequestText == <<"sorry, cannot process">>

\* src/index.js:280-281 (second variant)
cannotProcessRequestTextApi == <<"sorry, cannot process", "right now">>

FallbackText(route) ==
  IF route = "api" THEN cannotProcessRequestTextApi ELSE cannotProcessRequestText

imageFailedSuffix == <<"\n", "(image generation failed)">>

imageErrorSuffix == <<"\n", "(image generation error)">>

waitText == <<"thinking, please wait">>

\* ------------------------------------------------------- response templater
SimpleText(text) == [simpleText |-> [text |-> text]]

SimpleImage(imageUrl, altText) ==
  [simpleImage |-> [imageUrl |-> imageUrl, altText |-> altText]]

Envelope(outputs) == [version |-> "2.0", template |-> [outputs |-> outputs]]

\* createKakaoResponse of src/index.js:15: a falsy text (the empty string) adds
\* no output.
createKakaoResponse(text) ==
  Envelope(IF text # <<>> THEN <<SimpleText(text)>> ELSE <<>>)

\* createKakaoResponse of the second variant, src/index.js:284.
createKakaoResponseApi(text) == Envelope(<<SimpleText(text)>>)

createImageResponse(imageUrl, altText) == Envelope(<<SimpleImage(imageUrl, altText)>>)

RenderText(route, text) ==
  IF route = "api" THEN createKakaoResponseApi(text) ELSE createKakaoResponse(text)

\* ------------------------------------------------------------ engine answers
\* The outcome of engineClient.request: it throws, or resolves to a response
\* whose data is absent or carries the fields below.
\*   threw               the call threw (transport failure)
\*   hasData             response.data is present
\*   hasMessages, messages          data.messages
\*   success             data.success
\*   hasImageData, imageDataUrl     data.image_data, data.image_data.url
\*   imageUrl            data.image_url
\*   hasResponseMessage, responseMessage   data.response_message
NoAnswer ==
  [threw |-> FALSE, hasData |-> FALSE, hasMessages |-> FALSE, messages |-> <<>>,
   success |-> FALSE, hasImageData |-> FALSE, imageDataUrl |-> Undefined,
   imageUrl |-> Undefined, hasResponseMessage |-> FALSE, responseMessage |-> <<>>]

AnswerThrew == [NoAnswer EXCEPT !.threw = TRUE]

AnswerNoData == NoAnswer

TextData(hasMessages, messages) ==
  [NoAnswer EXCEPT !.hasData = TRUE, !.hasMessages = hasMessages, !.messages = messages]

ImageData(success, hasImageData, imageDataUrl, imageUrl, hasMsg, msg) ==
  [NoAnswer EXCEPT !.hasData = TRUE, !.success = success, !.hasImageData = hasImageData,
                   !.imageDataUrl = imageDataUrl, !.imageUrl = imageUrl,
                   !.hasResponseMessage = hasMsg, !.responseMessage = msg]

hiThere == <<"hi there">>

imgUrl == "https://x/img.png"

TextAnswers ==
  { AnswerThrew, AnswerNoData,
    TextData(FALSE, <<>>), TextData(TRUE, <<>>), TextData(TRUE, << <<>> >>),
    TextData(TRUE, <<hiThere>>), TextData(TRUE, <<hiThere, <<"more">> >>) }

ImageAnswers ==
  { AnswerThrew, AnswerNoData,
    ImageData(FALSE, FALSE, Undefined, Undefined, FALSE, <<>>),
    ImageData(TRUE, FALSE, Undefined, Undefined, FALSE, <<>>),
    ImageData(TRUE, FALSE, Undefined, imgUrl, TRUE, <<"ok">>),
    ImageData(TRUE, TRUE, imgUrl, Undefined, FALSE, <<>>),
    ImageData(FALSE, TRUE, imgUrl, Undefined, FALSE, <<>>) }

\* ------------------------------------------------------------ inbound bodies
\* userRequest.user: absent, or an object whose id and type may be missing.
User(id, type) == [id |-> id, type |-> type]

NoUser == User(Undefined, Undefined)

Users ==
  { NoUser, User("u1", Undefined), User("u1", "botUserKey"),
    User("u2", Undefined), User("u2", "botUserKey") }

\* req.body of a skill-platform request:
\* { userRequest: { utterance, callbackUrl, user: { id, type } } }.
Body(hasUserRequest, hasUtterance, utterance, callbackUrl, user) ==
  [hasUserRequest |-> hasUserRequest, hasUtterance |-> hasUtterance,
   utterance |-> utterance, callbackUrl |-> callbackUrl, user |-> user]

EmptyBody == Body(FALSE, FALSE, <<>>, Undefined, NoUser)

\* The mention-bot message of src/discord.js:48: message.author.bot,
\* message.mentions.has(client.user), message.member (null outside a guild),
\* message.content and message.channel.id.
Message(authorBot, mentionsBot, hasMember, content, channelId) ==
  [authorBot |-> authorBot, mentionsBot |-> mentionsBot, hasMember |-> hasMember,
   content |-> content, channelId |-> channelId]

EmptyMessage == Message(FALSE, FALSE, FALSE, <<>>, Undefined)

ChannelIds == {"ch1", "ch2"}

\* The values randomUUID returns, in the order of its calls: each call gives a
\* value no earlier call gave.
UuidPool == <<"uuid-1", "uuid-2">>

\* ------------------------------------------------------------------- state
VARIABLES
  variant,       \* which entry point runs: "kakao" (src/index.js:1-266),
                 \* "api" (src/index.js:268-405) or "discord" (src/discord.js)
  phase,         \* "starting", "listening", "closing" (server.close was called)
                 \* or "exited"
  engineClient,  \* the module-level engineClient: Undefined or "client"
  exitCode,      \* the status given to process.exit ("SIGINT" when the signal
                 \* ended the process), Undefined while running
  task,          \* per request: the handler's position and what it did
  uuids,         \* how many times randomUUID was called
  env            \* what the inbound requests of this run are drawn from

vars == <<variant, phase, engineClient, exitCode, task, uuids, env>>

\* The inbound requests of a run: every utterance and callback address, sent
\* without a user object.
DeliveryEnv ==
  [utterances |-> Utterances, callbackUrls |-> CallbackUrls \cup {Undefined},
   users |-> {NoUser}, channelIds |-> {"ch1"}]

\* The inbound requests of a run: one utterance, every user object.
IdentityEnv ==
  [utterances |-> {<<"a">>}, callbackUrls |-> {"http://cb1"}, users |-> Users,
   channelIds |-> ChannelIds]

Messages ==
  { Message(a, m, g, x, c) :
      a \in BOOLEAN, m \in BOOLEAN, g \in BOOLEAN,
      x \in env.utterances, c \in env.channelIds }

Bodies ==
  { EmptyBody }
    \cup { Body(TRUE, FALSE, <<>>, cb, u) : cb \in env.callbackUrls, u \in env.users }
    \cup { Body(TRUE, TRUE, x, cb, u) :
             x \in env.utterances, cb \in env.callbackUrls, u \in env.users }

Variants == {"kakao", "api", "discord"}

RoutesOf(v) ==
  IF v = "kakao" THEN {"channel", "group"} ELSE IF v = "api" THEN {"api"} ELSE {}

\* The Express response object of a request that nothing was written to.
NewRes == [statusCode |-> 200, headersSent |-> FALSE]

\* A request slot before its request arrives.
\*   pc         "new", "awaitEngine" (suspended in engineClient.request),
\*              "awaitFetch" (suspended in fetch) or "done"
\*   res        the response object; sent: what was transmitted to the caller
\*   events     the order of the observable actions
\*   engineReqs the requests made to the engine; answer: what the engine did
\*   rendered   the envelopes the handler built; posts: the callback POSTs
\*   rejected   an exception escaped the handler (its promise rejected)
\*   logged     the console.error lines
\*   message    the mention-bot message; typing: the typing indicators shown;
\*   channelSends: the messages sent into channels; inCatch: the handler is
\*   in its catch block ("awaitSend": suspended in message.channel.send)
NewTask ==
  [pc |-> "new", route |-> "none", body |-> EmptyBody,
   res |-> NewRes, sent |-> <<>>, events |-> <<>>, engineReqs |-> <<>>,
   answer |-> NoAnswer, rendered |-> <<>>, posts |-> <<>>, rejected |-> FALSE,
   logged |-> <<>>, message |-> EmptyMessage, typing |-> 0, channelSends |-> <<>>,
   inCatch |-> FALSE]

\* ------------------------------------------------------- the response object
\* res.status(code).json(body) on a response whose headers were not sent.
Respond(t, code, body) ==
  [t EXCEPT !.res = [statusCode |-> code, headersSent |-> TRUE],
            !.sent = Append(@, [status |-> code, body |-> body]),
            !.events = Append(@, "response")]

ErrorBody(msg) == [error |-> msg]

\* The acknowledgment of src/index.js:93-96, 164-168 and 332-335.
AckBody(route) ==
  IF route = "group"
  THEN [version |-> "2.0", useCallback |-> TRUE, data |-> [text |-> waitText]]
  ELSE [version |-> "2.0", useCallback |-> TRUE]

SendAck(t) == Respond(t, 200, AckBody(t.route))

\* The catch block of the text routes (src/index.js:139-145, 378-384):
\* res.status(500) assigns the status code whatever was sent before, and
\* send() throws out of the catch block when the headers were already sent.
TextCatch(t) ==
  LET errorResponse == RenderText(t.route, FallbackText(t.route))
      t1 == [t EXCEPT !.logged = Append(@, "Error with engine API:"),
                      !.rendered = Append(@, errorResponse),
                      !.pc = "done"]
  IN  IF t1.res.headersSent
      THEN [t1 EXCEPT !.res.statusCode = 500, !.rejected = TRUE]
      ELSE Respond(t1, 500, errorResponse)

\* ------------------------------------------------------------ handler steps
\* The delivery that keeps callbackUrl in one variable of the module, which a
\* later request overwrites.
DeliverSharedUrl(t, responseBody) ==
  LET others == {task[r].body.callbackUrl : r \in Reqs} \ {Undefined, t.body.callbackUrl}
      callbackUrl == IF others = {} THEN t.body.callbackUrl ELSE CHOOSE u \in others : TRUE
  IN  IF t.body.callbackUrl # Undefined
      THEN [t EXCEPT !.posts = Append(@, [url |-> callbackUrl, body |-> responseBody,
                                          outcome |-> "pending"]),
                     !.events = Append(@, "post"),
                     !.pc = "awaitFetch"]
      ELSE [t EXCEPT !.pc = "done"]

\* if (callbackUrl) { try { await fetch(callbackUrl, ...) } ... }
Deliver(t, responseBody) ==
  IF t.body.callbackUrl # Undefined
  THEN [t EXCEPT !.posts = Append(@, [url |-> t.body.callbackUrl, body |-> responseBody,
                                      outcome |-> "pending"]),
                 !.events = Append(@, "post"),
                 !.pc = "awaitFetch"]
  ELSE [t EXCEPT !.pc = "done"]

\* The validation of src/index.js:82-89, 152-159, 321-328: "" when the request
\* passes, else the error message of the 400 response.
ValidationError(body) ==
  IF ~body.hasUserRequest \/ ~body.hasUtterance \/ body.utterance = <<>>
  THEN "Missing message content"
  ELSE IF Trim(body.utterance) = <<>> THEN "Empty message content" ELSE ""

\* `kakaotalk-${user?.id || randomUUID()}-${user?.type || "user"}`, with uuid
\* the value randomUUID returns if it is called.
\* The session id with a fixed placeholder where the user id is missing.
SessionIdFixedFallback(user, uuid) ==
  <<"kakaotalk", IF user.id # Undefined THEN user.id ELSE "anonymous",
    IF user.type # Undefined THEN user.type ELSE "user">>

SessionId(user, uuid) ==
  <<"kakaotalk", IF user.id # Undefined THEN user.id ELSE uuid,
    IF user.type # Undefined THEN user.type ELSE "user">>

\* randomUUID is called only when the user id is missing.
CallsRandomUUID(user) == user.id = Undefined

\* engineClient.request({url: `${ENGINE_URL}/messages`, method: "POST", data}).
TextRequest(prompt, sessionId) ==
  [url |-> "/messages", method |-> "POST", prompt |-> prompt, session_id |-> sessionId]

\* engineClient.request({url: `${ENGINE_URL}/image?prompt=...`, method: "GET"}).
ImageRequest(prompt) == [url |-> "/image", method |-> "GET", prompt |-> prompt]

\* The call of engineClient.request on the text routes; with engineClient
\* undefined the call is a TypeError inside the handler's try block.
DispatchText(t, client, uuid) ==
  IF client = Undefined
  THEN TextCatch(t)
  ELSE [t EXCEPT !.engineReqs =
                   Append(@, TextRequest(Trim(t.body.utterance),
                                         SessionId(t.body.user, uuid))),
                 !.events = Append(@, "engine"),
                 !.pc = "awaitEngine"]

\* The text handler calling the engine before it acknowledges.
TextEntryEngineFirst(t, client, uuid) ==
  IF ValidationError(t.body) # ""
  THEN [Respond(t, 400, ErrorBody(ValidationError(t.body))) EXCEPT !.pc = "done"]
  ELSE LET t1 == DispatchText(t, client, uuid)
       IN  IF t1.res.headersSent THEN t1 ELSE SendAck(t1)

\* The handler of a text route up to its first await (src/index.js:78-109,
\* 317-348).
TextEntry(t, client, uuid) ==
  IF ValidationError(t.body) # ""
  THEN [Respond(t, 400, ErrorBody(ValidationError(t.body))) EXCEPT !.pc = "done"]
  ELSE DispatchText(SendAck(t), client, uuid)

\* The text routes after engineClient.request settled.
TextEngineSettled(t, ans) ==
  LET t1 == [t EXCEPT !.answer = ans]
  IN  IF ans.threw
      THEN TextCatch(t1)
      ELSE LET responseText ==
                 IF ans.hasData /\ ans.hasMessages /\ Len(ans.messages) > 0
                 THEN ans.messages[1]
                 ELSE FallbackText(t.route)
               responseBody == RenderText(t.route, responseText)
           IN  Deliver([t1 EXCEPT !.rendered = Append(@, responseBody)], responseBody)

\* The group rendering with the fallback string left out of the error text.
GroupRenderBareSuffix(prompt, ans) ==
  IF ans.threw \/ ~ans.hasData
  THEN createKakaoResponse(imageErrorSuffix)
  ELSE IF ans.success /\ ans.hasImageData
       THEN createImageResponse(ans.imageDataUrl, prompt)
       ELSE createKakaoResponse(cannotProcessRequestText \o imageFailedSuffix)

\* The render that trusts success alone and does not look at image_data.
GroupRenderSuccessOnly(prompt, ans) ==
  IF ans.threw \/ ~ans.hasData
  THEN createKakaoResponse(cannotProcessRequestText \o imageErrorSuffix)
  ELSE IF ans.success
       THEN createImageResponse(ans.imageDataUrl, prompt)
       ELSE createKakaoResponse(cannotProcessRequestText \o imageFailedSuffix)

\* The inner try/catch of the group route's background task
\* (src/index.js:175-197): the envelope for an engine outcome.
GroupRender(prompt, ans) ==
  IF ans.threw \/ ~ans.hasData
  THEN createKakaoResponse(cannotProcessRequestText \o imageErrorSuffix)
  ELSE IF ans.success /\ ans.hasImageData
       THEN createImageResponse(ans.imageDataUrl, prompt)
       ELSE createKakaoResponse(cannotProcessRequestText \o imageFailedSuffix)

\* The group route after engineClient.request settled.
GroupEngineSettled(t, ans) ==
  LET responseBody == GroupRender(Trim(t.body.utterance), ans)
  IN  Deliver([t EXCEPT !.answer = ans, !.rendered = Append(@, responseBody)],
              responseBody)

\* The group handler up to the first await of its background task; with
\* engineClient undefined the call is a TypeError caught by the inner catch.
GroupEntry(t, client) ==
  IF ValidationError(t.body) # ""
  THEN [Respond(t, 400, ErrorBody(ValidationError(t.body))) EXCEPT !.pc = "done"]
  ELSE LET t1 == SendAck(t)
       IN  IF client = Undefined
           THEN GroupEngineSettled(t1, AnswerThrew)
           ELSE [t1 EXCEPT !.engineReqs = Append(@, ImageRequest(Trim(t.body.utterance))),
                           !.events = Append(@, "engine"),
                           !.pc = "awaitEngine"]

SetOutcome(posts, outcome) == [posts EXCEPT ![Len(posts)].outcome = outcome]

\* A failed fetch that is tried once more.
FetchSettledRetry(t, ok) ==
  IF ok
  THEN [t EXCEPT !.posts = SetOutcome(@, "ok"), !.pc = "done"]
  ELSE [t EXCEPT !.posts = Append(SetOutcome(@, "failed"),
                                  [t.posts[Len(t.posts)] EXCEPT !.outcome = "pending"]),
                 !.events = Append(@, "post"),
                 !.logged = Append(@, "Error sending callback:")]

\* A failed fetch that falls through to an error path POSTing the fallback
\* envelope to the same callback address.
FetchSettledErrorPath(t, ok) ==
  IF ok
  THEN [t EXCEPT !.posts = SetOutcome(@, "ok"), !.pc = "done"]
  ELSE [t EXCEPT !.posts = Append(SetOutcome(@, "failed"),
                                  [url |-> t.body.callbackUrl,
                                   body |-> createKakaoResponse(cannotProcessRequestText),
                                   outcome |-> "pending"]),
                 !.events = Append(@, "post"),
                 !.logged = Append(@, "Error with group message:")]

\* fetch settled: src/index.js:135-137, 208-210, 374-376.
FetchSettled(t, ok) ==
  IF ok
  THEN [t EXCEPT !.posts = SetOutcome(@, "ok"), !.pc = "done"]
  ELSE [t EXCEPT !.posts = SetOutcome(@, "failed"),
                 !.logged = Append(@, "Error sending callback:"),
                 !.pc = "done"]

\* ------------------------------------------------------------ mention bot
\* src/discord.js:84
discordFallbackText == <<"Sorry. I can't process your request right now.">>

\* processMessageContent of utils.js: the message text, trimmed.
processMessageContent(message) == Trim(message.content)

\* engineClient.request of src/discord.js:62-73.
DiscordRequest(prompt, channelId) ==
  [url |-> "/messages", method |-> "POST", prompt |-> prompt,
   session_id |-> <<"discord", channelId>>]

\* message.channel.send(text): the handler is suspended until it settles.
ChannelSend(t, text) ==
  [t EXCEPT !.channelSends = Append(@, [channel |-> t.message.channelId, text |-> text,
                                        outcome |-> "pending"]),
            !.events = Append(@, "send"),
            !.pc = "awaitSend"]

\* The catch block of src/discord.js:81-86.
DiscordCatch(t) ==
  ChannelSend([t EXCEPT !.logged = Append(@, "Error with engine API:"),
                        !.inCatch = TRUE],
              discordFallbackText)

\* The handler that shows the typing indicator before it looks at the prompt.
DiscordEntryTypingFirst(t, client) ==
  IF t.message.authorBot \/ ~t.message.mentionsBot
  THEN [t EXCEPT !.pc = "done"]
  ELSE LET t1 == [t EXCEPT !.typing = @ + 1, !.events = Append(@, "typing")]
       IN  IF processMessageContent(t.message) = <<>>
           THEN [t1 EXCEPT !.pc = "done"]
           ELSE IF ~t.message.hasMember \/ client = Undefined
                THEN DiscordCatch(t1)
                ELSE [t1 EXCEPT !.engineReqs =
                                  Append(@, DiscordRequest(processMessageContent(t.message),
                                                           t.message.channelId)),
                                !.events = Append(@, "engine"),
                                !.pc = "awaitEngine"]

\* The messageCreate handler up to its first await (src/discord.js:48-73):
\* reading message.member.displayName of a null member and calling request on
\* an undefined engineClient are TypeErrors inside the try block.
DiscordEntry(t, client) ==
  IF t.message.authorBot \/ ~t.message.mentionsBot
       \/ processMessageContent(t.message) = <<>>
  THEN [t EXCEPT !.pc = "done"]
  ELSE LET t1 == [t EXCEPT !.typing = @ + 1, !.events = Append(@, "typing")]
       IN  IF ~t.message.hasMember \/ client = Undefined
           THEN DiscordCatch(t1)
           ELSE [t1 EXCEPT !.engineReqs =
                             Append(@, DiscordRequest(processMessageContent(t.message),
                                                      t.message.channelId)),
                           !.events = Append(@, "engine"),
                           !.pc = "awaitEngine"]

\* handleEngineResponse of utils.js: the first message of the answer, or the
\* fallback text, sent into the channel of the mention.
handleEngineResponse(t, ans) ==
  ChannelSend(t, IF ans.hasData /\ ans.hasMessages /\ Len(ans.messages) > 0
                    /\ ans.messages[1] # <<>>
                 THEN ans.messages[1]
                 ELSE discordFallbackText)

\* The messageCreate handler after engineClient.request settled
\* (src/discord.js:75-86).
DiscordEngineSettled(t, ans) ==
  LET t1 == [t EXCEPT !.answer = ans]
  IN  IF ans.threw THEN DiscordCatch(t1) ELSE handleEngineResponse(t1, ans)

SetSendOutcome(sends, outcome) == [sends EXCEPT ![Len(sends)].outcome = outcome]

\* message.channel.send settled: a failure inside the try block goes to the
\* catch block, a failure of the catch block's own send leaves the handler.
SendSettled(t, ok) ==
  IF ok
  THEN [t EXCEPT !.channelSends = SetSendOutcome(@, "ok"), !.pc = "done"]
  ELSE LET t1 == [t EXCEPT !.channelSends = SetSendOutcome(@, "failed")]
       IN  IF t.inCatch
           THEN [t1 EXCEPT !.rejected = TRUE, !.pc = "done"]
           ELSE DiscordCatch(t1)

\* ------------------------------------------------------------------ startup
\* initializeEngineClient: only src/index.js:55-63 re-throws.
initializeEngineClient(v, ok) ==
  IF ok
  THEN [engineClient |-> "client", threw |-> FALSE]
  ELSE [engineClient |-> Undefined, threw |-> v = "kakao"]

Init ==
  /\ variant \in Variants
  /\ phase = "starting"
  /\ engineClient = Undefined
  /\ exitCode = Undefined
  /\ task = [r \in Reqs |-> NewTask]
  /\ uuids = 0
  /\ env = DeliveryEnv

\* startBot: src/index.js:237-264, 392-403, src/discord.js:103-119.
StartBot ==
  /\ phase = "starting"
  /\ \E ok \in BOOLEAN :
       LET i == initializeEngineClient(variant, ok)
       IN  /\ engineClient' = i.engineClient
           /\ phase' = IF i.threw THEN "exited" ELSE "listening"
           /\ exitCode' = IF i.threw THEN "1" ELSE exitCode
  /\ UNCHANGED <<variant, task, uuids, env>>

Arrive(r, route, body) == [NewTask EXCEPT !.route = route, !.body = body]

\* The text handler run on an arriving request, with the next value of
\* randomUUID at hand.
TextHandler(t) == TextEntry(t, engineClient, UuidPool[uuids + 1])

\* The calls of randomUUID a text handler made: one when it built a request
\* body for a user without an id (src/index.js:100, 339).
RandomUUIDCalls(t) ==
  IF t.engineReqs # <<>> /\ CallsRandomUUID(t.body.user) THEN 1 ELSE 0

\* POST /channel/message
PostChannelMessage(r) ==
  /\ phase = "listening" /\ "channel" \in RoutesOf(variant)
  /\ task[r].pc = "new"
  /\ \E body \in Bodies :
       /\ task' = [task EXCEPT ![r] = TextHandler(Arrive(r, "channel", body))]
       /\ uuids' = uuids + RandomUUIDCalls(task'[r])
  /\ UNCHANGED <<variant, phase, engineClient, exitCode, env>>

\* POST /api/message
PostApiMessage(r) ==
  /\ phase = "listening" /\ "api" \in RoutesOf(variant)
  /\ task[r].pc = "new"
  /\ \E body \in Bodies :
       /\ task' = [task EXCEPT ![r] = TextHandler(Arrive(r, "api", body))]
       /\ uuids' = uuids + RandomUUIDCalls(task'[r])
  /\ UNCHANGED <<variant, phase, engineClient, exitCode, env>>

\* POST /group/message
PostGroupMessage(r) ==
  /\ phase = "listening" /\ "group" \in RoutesOf(variant)
  /\ task[r].pc = "new"
  /\ \E body \in Bodies :
       task' = [task EXCEPT ![r] = GroupEntry(Arrive(r, "group", body), engineClient)]
  /\ UNCHANGED <<variant, phase, engineClient, exitCode, uuids, env>>

\* A mention-bot message arrives: client.on("messageCreate") of src/discord.js.
MessageCreate(r) ==
  /\ phase = "listening" /\ variant = "discord"
  /\ task[r].pc = "new"
  /\ \E message \in Messages :
       task' = [task EXCEPT ![r] =
                  DiscordEntry([NewTask EXCEPT !.route = "discord", !.message = message],
                               engineClient)]
  /\ UNCHANGED <<variant, phase, engineClient, exitCode, uuids, env>>

\* message.channel.send settles and the handler runs on.
ChannelSendSettles(r) ==
  /\ phase # "exited"
  /\ task[r].pc = "awaitSend"
  /\ \E ok \in BOOLEAN : task' = [task EXCEPT ![r] = SendSettled(task[r], ok)]
  /\ UNCHANGED <<variant, phase, engineClient, exitCode, uuids, env>>

\* The handler of a request after its engine call settled with ans.
EngineSettled(t, ans) ==
  IF t.route = "group" THEN GroupEngineSettled(t, ans)
  ELSE IF t.route = "discord" THEN DiscordEngineSettled(t, ans)
  ELSE TextEngineSettled(t, ans)

\* engineClient.request settles and the handler runs to its next await.
EngineSettles(r) ==
  /\ phase # "exited"
  /\ task[r].pc = "awaitEngine"
  /\ \E ans \in IF task[r].route = "group" THEN ImageAnswers ELSE TextAnswers :
       task' = [task EXCEPT ![r] = EngineSettled(task[r], ans)]
  /\ UNCHANGED <<variant, phase, engineClient, exitCode, uuids, env>>

\* fetch(callbackUrl) settles and the handler runs to its end.
CallbackSettles(r) ==
  /\ phase # "exited"
  /\ task[r].pc = "awaitFetch"
  /\ \E ok \in BOOLEAN : task' = [task EXCEPT ![r] = FetchSettled(task[r], ok)]
  /\ UNCHANGED <<variant, phase, engineClient, exitCode, uuids, env>>

Next ==
  \/ StartBot
  \/ \E r \in Reqs : PostChannelMessage(r)
  \/ \E r \in Reqs : PostApiMessage(r)
  \/ \E r \in Reqs : PostGroupMessage(r)
  \/ \E r \in Reqs : EngineSettles(r)
  \/ \E r \in Reqs : CallbackSettles(r)
  \/ \E r \in Reqs : MessageCreate(r)
  \/ \E r \in Reqs : ChannelSendSettles(r)

Spec == Init /\ [][Next]_vars

\* ----------------------------------------------------------------- shutdown
\* The inbound requests of a run with interrupts.
ShutdownEnv ==
  [utterances |-> {<<" ">>, <<"a">>}, callbackUrls |-> {Undefined, "http://cb1"},
   users |-> {NoUser}, channelIds |-> {"ch1"}]

\* process.on("SIGINT", ...) of src/index.js:253 is installed once startBot has
\* called app.listen; the other entry points install no handler.
HandlesSigint == variant = "kakao" /\ phase \in {"listening", "closing"}

\* SIGINT with the handler installed: server.close(callback) stops the server
\* from accepting connections (src/index.js:253-259).
Sigint ==
  /\ HandlesSigint /\ phase = "listening"
  /\ phase' = "closing"
  /\ UNCHANGED <<variant, engineClient, exitCode, task, uuids, env>>

\* SIGINT without a handler: the signal ends the process.
SigintDefault ==
  /\ ~HandlesSigint /\ phase # "exited"
  /\ phase' = "exited"
  /\ exitCode' = "SIGINT"
  /\ UNCHANGED <<variant, engineClient, task, uuids, env>>

\* The callback of server.close run only when no handler is suspended.
ServerClosedAfterDrain ==
  /\ phase = "closing"
  /\ \A r \in Reqs : task[r].pc \in {"new", "done"}
  /\ phase' = "exited"
  /\ exitCode' = "0"
  /\ UNCHANGED <<variant, engineClient, task, uuids, env>>

\* The callback of server.close: process.exit(0) (src/index.js:255-258). Every
\* response was sent before the handler's first await, so a suspended handler
\* keeps no response open.
ServerClosed ==
  /\ phase = "closing"
  /\ phase' = "exited"
  /\ exitCode' = "0"
  /\ UNCHANGED <<variant, engineClient, task, uuids, env>>

InitShutdown ==
  /\ variant \in Variants
  /\ phase = "starting"
  /\ engineClient = Undefined
  /\ exitCode = Undefined
  /\ task = [r \in Reqs |-> NewTask]
  /\ uuids = 0
  /\ env = ShutdownEnv

NextShutdown == Next \/ Sigint \/ SigintDefault \/ ServerClosed

\* The event loop runs the close callback once the server has closed.
SpecShutdown == InitShutdown /\ [][NextShutdown]_vars /\ WF_vars(ServerClosed)

\* The same program, its requests drawn from IdentityEnv.
InitIdentity ==
  /\ variant \in Variants
  /\ phase = "starting"
  /\ engineClient = Undefined
  /\ exitCode = Undefined
  /\ task = [r \in Reqs |-> NewTask]
  /\ uuids = 0
  /\ env = IdentityEnv

SpecIdentity == InitIdentity /\ [][Next]_vars

\* ------------------------------------------------------------------- claims
WhitespaceOnly(u) == \A i \in 1..Len(u) : u[i] = " "

\* The request carries an utterance that is non-empty after trimming.
HasUtterance(t) ==
  t.body.hasUserRequest /\ t.body.hasUtterance /\ ~WhitespaceOnly(t.body.utterance)

\* The request came in on a skill-platform route.
SkillPlatform(t) == t.route \in {"channel", "api", "group"}

Arrived(t) == t.pc # "new" /\ SkillPlatform(t)

Acknowledged(t) == t.sent # <<>> /\ t.sent[1].status = 200

HasCallback(t) == t.body.callbackUrl # Undefined

HasPrefix(text, prefix) ==
  Len(text) >= Len(prefix) /\ SubSeq(text, 1, Len(prefix)) = prefix

\* C1: a skill-platform request whose utterance is non-empty after trimming is
\* answered with one 200 acknowledgment carrying useCallback:true, and the
\* engine call and the callback POST of that request come after it.
C1_AckBeforeUpstream ==
  \A r \in Reqs :
    LET t == task[r]
    IN  (Arrived(t) /\ HasUtterance(t)) =>
          /\ Len(t.sent) = 1
          /\ t.sent[1].status = 200
          /\ t.sent[1].body.version = "2.0"
          /\ t.sent[1].body.useCallback = TRUE
          /\ t.events[1] = "response"
          /\ \A i \in 1..Len(t.events) : t.events[i] \in {"engine", "post"} => i > 1

C1_Witness ==
  \E r \in Reqs :
    LET t == task[r]
    IN  /\ t.pc = "done" /\ HasUtterance(t)
        /\ t.events = <<"response", "engine", "post">>
        /\ t.posts[1].outcome = "ok"

\* C2: a request whose userRequest or utterance is missing, or whose utterance
\* is empty or whitespace-only, is answered 400 and makes no engine call and no
\* callback POST, with or without a callbackUrl.
C2_InvalidRejected ==
  \A r \in Reqs :
    LET t == task[r]
    IN  (Arrived(t) /\ ~HasUtterance(t)) =>
          /\ t.pc = "done"
          /\ Len(t.sent) = 1
          /\ t.sent[1].status = 400
          /\ t.engineReqs = <<>>
          /\ t.posts = <<>>
          /\ t.events = <<"response">>

C2_Witness ==
  \E r \in Reqs :
    LET t == task[r]
    IN  /\ t.pc = "done" /\ HasCallback(t)
        /\ t.body.hasUtterance /\ t.body.utterance # <<>>
        /\ WhitespaceOnly(t.body.utterance)
        /\ t.sent[1].body = ErrorBody("Empty message content")

\* C3: every acknowledged request that carries a callback address gets one
\* callback POST, whatever its engine call did; stated on the finished handler.
C3_CallbackAlwaysAttempted ==
  \A r \in Reqs :
    LET t == task[r]
    IN  (t.pc = "done" /\ Acknowledged(t) /\ HasCallback(t) /\ t.engineReqs # <<>>) =>
          Len(t.posts) = 1

\* C4 as claimed: when the engine call fails in transport, the envelope
\* delivered for the request carries exactly the fixed fallback string.
C4_TransportFailureExactFallback ==
  \A r \in Reqs :
    LET t == task[r]
    IN  (SkillPlatform(t) /\ t.answer.threw) =>
          \A i \in 1..Len(t.posts) :
            t.posts[i].body = Envelope(<<SimpleText(FallbackText(t.route))>>)

\* C4 as amended: when the engine call fails in transport, the handler builds
\* one envelope with one text block that starts with the fixed fallback string:
\* exactly that string on the channel and api routes, that string followed by
\* the image-error suffix on the group route, where it is the envelope POSTed.
C4_TransportFailureFallbackPrefix ==
  \A r \in Reqs :
    LET t == task[r]
    IN  (SkillPlatform(t) /\ t.answer.threw) =>
          /\ Len(t.rendered) = 1
          /\ Len(t.rendered[1].template.outputs) = 1
          /\ DOMAIN t.rendered[1].template.outputs[1] = {"simpleText"}
          /\ LET text == t.rendered[1].template.outputs[1].simpleText.text
             IN  /\ HasPrefix(text, FallbackText(t.route))
                 /\ t.route = "group" => text = cannotProcessRequestText \o imageErrorSuffix
                 /\ t.route # "group" => text = FallbackText(t.route)
          /\ \A i \in 1..Len(t.posts) : t.posts[i].body = t.rendered[1]
          /\ (t.route = "group" /\ HasCallback(t)) => Len(t.posts) = 1

C4_Witness ==
  \E r \in Reqs :
    LET t == task[r]
    IN  /\ t.route = "group" /\ t.answer.threw /\ t.pc = "done"
        /\ Len(t.posts) = 1
        /\ t.posts[1].body =
             Envelope(<<SimpleText(cannotProcessRequestText \o imageErrorSuffix)>>)

\* C5: whatever the engine call and the callback POST do, no exception escapes
\* a skill-platform handler or its background task.
C5_NoExceptionEscapes ==
  \A r \in Reqs :
    (SkillPlatform(task[r]) /\ task[r].engineReqs # <<>>) => ~task[r].rejected

\* C6: once the response of a request has been sent, the handler never writes
\* a status or a body to the response object again.
C6_NoWriteAfterAck ==
  [][\A r \in Reqs :
       (task[r].res.headersSent /\ task[r].engineReqs # <<>>) =>
         task'[r].res = task[r].res]_vars

\* C7: a callback POST that fails in transport is logged and nothing else: the
\* handler ends, there is no second POST, no exception and no further response.
C7_CallbackFailureLoggedOnly ==
  \A r \in Reqs :
    LET t == task[r]
    IN  \A i \in 1..Len(t.posts) :
          t.posts[i].outcome = "failed" =>
            /\ t.pc = "done"
            /\ Len(t.posts) = 1
            /\ ~t.rejected
            /\ Len(t.sent) = 1 /\ t.sent[1].status = 200 /\ t.res.statusCode = 200
            /\ t.logged = <<"Error sending callback:">>
            /\ Len(t.engineReqs) = 1

C7_Witness ==
  \E r1, r2 \in Reqs :
    /\ task[r1].route = "channel" /\ task[r2].route = "group"
    /\ task[r1].pc = "done" /\ task[r2].pc = "done"
    /\ task[r1].posts # <<>> /\ task[r1].posts[1].outcome = "failed"
    /\ task[r2].posts # <<>> /\ task[r2].posts[1].outcome = "failed"

\* C8: an image answer with success=true, an image_url and a response_message
\* is rendered as a text block with the response_message followed by an image
\* block with that URL and the original utterance as altText.
C8_ImageWithCaption ==
  \A r \in Reqs :
    LET t == task[r]
    IN  ( /\ t.route = "group" /\ t.rendered # <<>>
          /\ ~t.answer.threw /\ t.answer.hasData /\ t.answer.success
          /\ t.answer.imageUrl # Undefined /\ t.answer.hasResponseMessage ) =>
          t.rendered[1].template.outputs =
            << SimpleText(t.answer.responseMessage),
               SimpleImage(t.answer.imageUrl, t.body.utterance) >>

\* C9: on a text route the envelope POSTed to the callback address has exactly
\* one output: a text block with the first element of the engine's message
\* list, or with the fallback string when the list is empty or absent.
C9_FirstMessageVerbatim ==
  \A r \in Reqs :
    LET t == task[r]
    IN  (t.route \in {"channel", "api"} /\ t.posts # <<>> /\ t.answer.hasData) =>
          t.posts[1].body.template.outputs =
            IF t.answer.hasMessages /\ Len(t.answer.messages) > 0
            THEN <<SimpleText(t.answer.messages[1])>>
            ELSE <<SimpleText(FallbackText(t.route))>>

\* C10: the process accepts requests only with the engine client initialized.
C10_ListeningImpliesClient == phase = "listening" => engineClient = "client"

\* The session key a request sent to the engine.
SentSessionKey(t) == t.engineReqs[1].session_id

AskedWithKey(t) == t.route \in {"channel", "api"} /\ t.engineReqs # <<>>

\* On the mention-bot path the key is the channel of the mention.
SameChannelSameKey ==
  \A r1, r2 \in Reqs :
    LET t1 == task[r1]
        t2 == task[r2]
    IN  (t1.route = "discord" /\ t2.route = "discord"
           /\ t1.engineReqs # <<>> /\ t2.engineReqs # <<>>) =>
          (t1.message.channelId = t2.message.channelId
             <=> SentSessionKey(t1) = SentSessionKey(t2))

C11_WitnessNoUserId ==
  \E r1, r2 \in Reqs :
    /\ r1 # r2 /\ AskedWithKey(task[r1]) /\ AskedWithKey(task[r2])
    /\ task[r1].body.user.id = Undefined /\ task[r2].body.user.id = Undefined
    /\ SentSessionKey(task[r1]) # SentSessionKey(task[r2])

\* Two mentions from the same channel, both sent on to the engine.
C11_WitnessSameChannel ==
  \E r1, r2 \in Reqs :
    /\ r1 # r2
    /\ task[r1].route = "discord" /\ task[r2].route = "discord"
    /\ task[r1].engineReqs # <<>> /\ task[r2].engineReqs # <<>>
    /\ task[r1].message.channelId = "ch2" /\ task[r2].message.channelId = "ch2"
    /\ SentSessionKey(task[r1]) = <<"discord", "ch2">>

Ignored(message) ==
  \/ message.authorBot
  \/ ~message.mentionsBot
  \/ processMessageContent(message) = <<>>

\* C14: a mention-bot message written by a bot, or that does not mention the
\* bot, or whose processed prompt is empty, causes no engine call, no typing
\* indicator and no message into the channel.
C14_IgnoredMessageDoesNothing ==
  \A r \in Reqs :
    LET t == task[r]
    IN  (t.route = "discord" /\ Ignored(t.message)) =>
          /\ t.pc = "done"
          /\ t.engineReqs = <<>>
          /\ t.typing = 0
          /\ t.channelSends = <<>>
          /\ t.events = <<>>
          /\ ~t.rejected

C14_Witness ==
  \E r1, r2 \in Reqs :
    /\ task[r1].route = "discord" /\ task[r1].pc = "done"
    /\ ~task[r1].message.authorBot /\ task[r1].message.mentionsBot
    /\ task[r1].message.content = <<" ">>
    /\ task[r1].typing = 0 /\ task[r1].channelSends = <<>>
    /\ task[r2].route = "discord" /\ task[r2].pc = "done"
    /\ task[r2].message.authorBot /\ task[r2].message.content = <<"a">>
    /\ task[r2].typing = 0 /\ task[r2].channelSends = <<>>

\* C15: when the engine call of an actionable mention fails, the handler sends
\* one fallback message into the channel of the mention, makes no callback
\* POST, and no exception escapes it.
C15_EngineFailureOneFallback ==
  \A r \in Reqs :
    LET t == task[r]
    IN  (t.route = "discord" /\ t.answer.threw /\ t.pc = "done") =>
          /\ Len(t.channelSends) = 1
          /\ t.channelSends[1].text = discordFallbackText
          /\ t.channelSends[1].channel = t.message.channelId
          /\ t.posts = <<>>
          /\ ~t.rejected

\* C16: an acknowledged skill-platform request without a callback address
\* makes one engine call and no callback POST, and its handler ends normally
\* whatever the engine call did; stated with the engine client initialized.
C16_NoCallbackIsNoOp ==
  \A r \in Reqs :
    LET t == task[r]
    IN  ( /\ SkillPlatform(t) /\ Acknowledged(t) /\ ~HasCallback(t)
          /\ engineClient # Undefined /\ t.pc = "done" ) =>
          /\ Len(t.engineReqs) = 1
          /\ t.posts = <<>>
          /\ ~t.rejected
          /\ Len(t.sent) = 1

\* The engine answered the image request with success and image_data.
ImageDelivered(ans) ==
  ~ans.threw /\ ans.hasData /\ ans.success /\ ans.hasImageData

HasImageBlock(envelope) ==
  \E i \in 1..Len(envelope.template.outputs) :
    "simpleImage" \in DOMAIN envelope.template.outputs[i]

\* C17: on the group route the envelope holds an image block only when the
\* engine answer has success and image_data; for every other outcome it holds
\* one text block, the fixed fallback string followed by a diagnostic suffix,
\* and that envelope is the one POSTed.
C17_GroupImageOnlyOnSuccess ==
  \A r \in Reqs :
    LET t == task[r]
    IN  (t.route = "group" /\ t.rendered # <<>>) =>
          /\ Len(t.rendered) = 1
          /\ HasImageBlock(t.rendered[1]) => ImageDelivered(t.answer)
          /\ ~ImageDelivered(t.answer) =>
                LET outputs == t.rendered[1].template.outputs
                IN  /\ Len(outputs) = 1
                    /\ DOMAIN outputs[1] = {"simpleText"}
                    /\ HasPrefix(outputs[1].simpleText.text, cannotProcessRequestText)
                    /\ \E suffix \in {imageFailedSuffix, imageErrorSuffix} :
                         /\ suffix # <<>>
                         /\ outputs[1].simpleText.text = cannotProcessRequestText \o suffix
          /\ \A i \in 1..Len(t.posts) : t.posts[i].body = t.rendered[1]

C17_Witness ==
  \E r1, r2 \in Reqs :
    /\ task[r1].route = "group" /\ task[r1].pc = "done" /\ Len(task[r1].posts) = 1
    /\ task[r1].answer.success /\ ~task[r1].answer.hasImageData
    /\ task[r1].posts[1].body =
         Envelope(<<SimpleText(cannotProcessRequestText \o imageFailedSuffix)>>)
    /\ task[r2].route = "group" /\ task[r2].pc = "done" /\ Len(task[r2].posts) = 1
    /\ ImageDelivered(task[r2].answer)
    /\ HasImageBlock(task[r2].posts[1].body)

\* The envelope the code builds from the request's own utterance and answer.
OwnEnvelope(t) ==
  IF t.route = "group"
  THEN GroupRender(Trim(t.body.utterance), t.answer)
  ELSE RenderText(t.route,
                  IF t.answer.hasData /\ t.answer.hasMessages /\ Len(t.answer.messages) > 0
                  THEN t.answer.messages[1]
                  ELSE FallbackText(t.route))

OwnCallbackOnly ==
  \A r \in Reqs :
    LET t == task[r]
    IN  \A i \in 1..Len(t.posts) :
          /\ t.posts[i].url = t.body.callbackUrl
          /\ t.posts[i].body = OwnEnvelope(t)

\* C18: under every interleaving each callback POST goes to the callback
\* address of its own request with the envelope built from that request's own
\* answer and utterance; a step of one handler leaves every other request as
\* it was, and the engine client handle is not written after startup.
C18_RequestsIsolated ==
  /\ []OwnCallbackOnly
  /\ [][\A r1, r2 \in Reqs :
          r1 # r2 => (task'[r1] = task[r1] \/ task'[r2] = task[r2])]_vars
  /\ [][phase # "starting" => engineClient' = engineClient]_vars

C18_Witness ==
  \E r1, r2 \in Reqs :
    /\ task[r1].pc = "awaitFetch" /\ task[r2].pc = "awaitFetch"
    /\ task[r1].route = "channel" /\ task[r2].route = "group"
    /\ task[r1].posts[1].url = "http://cb1" /\ task[r2].posts[1].url = "http://cb2"
    /\ task[r1].body.utterance # task[r2].body.utterance
    /\ task[r1].posts[1].body = Envelope(<<SimpleText(hiThere)>>)
    /\ HasImageBlock(task[r2].posts[1].body)

\* C19: no request gets two callback POSTs: on every route, and whatever the
\* engine call and the first POST did, at most one POST is attempted, and
\* after a POST was attempted no other follows.
C19_AtMostOnePost ==
  /\ [](\A r \in Reqs :
          /\ Len(task[r].posts) <= 1
          /\ Len(SelectSeq(task[r].events, LAMBDA e : e = "post")) = Len(task[r].posts))
  /\ [][\A r \in Reqs :
          (task[r].posts # <<>> /\ task[r].pc # "new") =>
            Len(task'[r].posts) = Len(task[r].posts)]_vars

C19_Witness ==
  \E r1, r2 \in Reqs :
    /\ task[r1].route = "group" /\ task[r1].pc = "done" /\ task[r1].answer.threw
    /\ Len(task[r1].posts) = 1 /\ task[r1].posts[1].outcome = "failed"
    /\ task[r2].route = "channel" /\ task[r2].pc = "done"
    /\ Len(task[r2].posts) = 1 /\ task[r2].posts[1].outcome = "ok"

\* A text with the value of the fallback string constant masked.
MaskFallback(text) ==
  IF text \in {cannotProcessRequestText, cannotProcessRequestTextApi}
  THEN <<"fallback">>
  ELSE text

\* The shape of an envelope: its blocks in order, with the text of each text
\* block.
EnvelopeShape(envelope) ==
  [i \in 1..Len(envelope.template.outputs) |->
     IF "simpleText" \in DOMAIN envelope.template.outputs[i]
     THEN <<"text", MaskFallback(envelope.template.outputs[i].simpleText.text)>>
     ELSE <<"image">>]

\* What the outside sees of a request: the HTTP responses, the engine
\* requests, the callback POSTs with the shape of their envelopes, their
\* order, and whether the handler ended with an exception.
Observable(t) ==
  [responses |-> t.sent,
   engine |-> t.engineReqs,
   posts |-> [i \in 1..Len(t.posts) |->
                [url |-> t.posts[i].url, outcome |-> t.posts[i].outcome,
                 envelope |-> EnvelopeShape(t.posts[i].body)]],
   events |-> t.events,
   rejected |-> t.rejected]

OtherTextRoute(route) == IF route = "channel" THEN "api" ELSE "channel"

\* The finished request t run again through the handler of the other text
\* route: same body, same engine client handle, same random identifier, same
\* engine outcome and same outcome of the callback POST.
ReplayOnOtherRoute(t) ==
  LET uuid == IF t.engineReqs # <<>> THEN t.engineReqs[1].session_id[2] ELSE UuidPool[1]
      entered == TextEntry([NewTask EXCEPT !.route = OtherTextRoute(t.route),
                                           !.body = t.body],
                           engineClient, uuid)
      answered == IF entered.pc = "awaitEngine"
                  THEN TextEngineSettled(entered, t.answer)
                  ELSE entered
  IN  IF answered.pc = "awaitFetch" /\ t.posts # <<>>
      THEN FetchSettled(answered, t.posts[1].outcome = "ok")
      ELSE answered

\* C20: the channel route and the api route are one orchestrator: for every
\* request and every engine outcome they show the same responses, engine
\* request, callback POST and envelope shape, up to the value of the fallback
\* string.
C20_TextRoutesSameOrchestrator ==
  \A r \in Reqs :
    LET t == task[r]
    IN  (t.route \in {"channel", "api"} /\ t.pc = "done") =>
          Observable(ReplayOnOtherRoute(t)) = Observable(t)

====
